---- MODULE Spec2Model ----
(***************************************************************************)
(* Model of pain.py (PAIN 1.4): the vcpkg.json dependency list, the       *)
(* managed region of CMakeLists.txt, toolchain detection and the build    *)
(* cache guard, project creation and run() with its progress thread.      *)
(* Text is modelled as TLA+ strings, files as the bytes on disk;          *)
(* Path.read_text / Path.write_text translate newlines as Python's text   *)
(* mode does.                                                              *)
(***************************************************************************)
EXTENDS Integers, Sequences, FiniteSets, TLC

VARIABLES
    system,               \* platform.system()
    path,                 \* the commands shutil.which finds
    vcpkg,                \* the vcpkg root: "absent", "cloned" or "bootstrapped"
    vcpkg_configuration,  \* vcpkg-configuration.json of the project
    deps,                 \* "dependencies" of vcpkg.json
    cmake,                \* the bytes of CMakeLists.txt
    build_exists,         \* the build directory exists
    cache,                \* build/CMakeCache.txt
    installed,            \* the vcpkg_installed directory exists
    last,                 \* the last command run: its input, the state before it, its steps and outcome
    root,                 \* find_project_root(): "None" or the name of the project directory
    dirs,                 \* the directories of the working directory pain init is run in
    running,              \* Spinner.running
    thread,               \* Spinner.thread: "None", or where the thread is in spin()
    frame,                \* how far spin() is in its cycle of four characters
    caller,               \* where the caller is in run(cmd, msg=...)
    call,                 \* the arguments of the run() in progress
    executed,             \* the return codes of the executions of cmd in this run()
    exc                   \* the exception run() is leaving with

cwd_vars == <<root, dirs>>
run_vars == <<running, thread, frame, caller, call, executed, exc>>

vars == <<system, path, vcpkg, vcpkg_configuration, deps, cmake, build_exists, cache,
          installed, last, root, dirs, running, thread, frame, caller, call, executed, exc>>

(***************************************************************************)
(* Python str operations                                                   *)
(***************************************************************************)

\* the positions of t where s occurs
Occurrences(s, t) ==
    { i \in 1..(Len(t) - Len(s) + 1) : SubSeq(t, i, i + Len(s) - 1) = s }

\* t.find(s) + 1 (0 when absent)
Find(s, t) ==
    LET m == Occurrences(s, t) IN
    IF m = {} THEN 0 ELSE CHOOSE i \in m : \A j \in m : i <= j

\* s in t
Contains(s, t) == Find(s, t) # 0

\* the pieces of t from position from on, cut at the occurrences occ of sep taken left to right
RECURSIVE SplitFrom(_, _, _, _)
SplitFrom(t, sep, occ, from) ==
    LET m == { i \in occ : i >= from } IN
    IF m = {} THEN <<SubSeq(t, from, Len(t))>>
    ELSE LET i == CHOOSE k \in m : \A l \in m : k <= l
         IN  <<SubSeq(t, from, i - 1)>> \o SplitFrom(t, sep, occ, i + Len(sep))

\* t.split(sep): the pieces between the non-overlapping occurrences of sep
Split(t, sep) == SplitFrom(t, sep, Occurrences(sep, t), 1)

\* sep.join(parts)
RECURSIVE Join(_, _)
Join(parts, sep) ==
    IF Len(parts) = 0 THEN ""
    ELSE IF Len(parts) = 1 THEN parts[1]
    ELSE parts[1] \o sep \o Join(Tail(parts), sep)

\* t.replace(old, new)
Replace(t, old, new) == Join(Split(t, old), new)

UpperChars == "ABCDEFGHIJKLMNOPQRSTUVWXYZ"
LowerChars == "abcdefghijklmnopqrstuvwxyz"
DigitChars == "0123456789"

\* s.lower()
RECURSIVE Lower(_)
Lower(s) ==
    IF Len(s) = 0 THEN ""
    ELSE LET c == SubSeq(s, 1, 1)
             i == Find(c, UpperChars)
         IN  (IF i = 0 THEN c ELSE SubSeq(LowerChars, i, i))
             \o Lower(SubSeq(s, 2, Len(s)))

IsSpace(c) == c \in {" ", "\t", "\n", "\r"}

\* s.strip()
RECURSIVE Strip(_)
Strip(s) ==
    IF Len(s) = 0 THEN ""
    ELSE IF IsSpace(SubSeq(s, 1, 1)) THEN Strip(SubSeq(s, 2, Len(s)))
    ELSE IF IsSpace(SubSeq(s, Len(s), Len(s))) THEN Strip(SubSeq(s, 1, Len(s) - 1))
    ELSE s

\* the regex class \w
IsWord(c) ==
    Contains(c, UpperChars) \/ Contains(c, LowerChars) \/ Contains(c, DigitChars) \/ c = "_"

(***************************************************************************)
(* Path.read_text / Path.write_text (text mode, newline=None)              *)
(***************************************************************************)

\* universal newlines: "\r\n" and a lone "\r" are read as "\n"
read_text(bytes) == Replace(Replace(bytes, "\r\n", "\n"), "\r", "\n")

\* "\n" is written as os.linesep
write_text(text, sys) ==
    IF sys = "Windows" THEN Replace(text, "\n", "\r\n") ELSE text

(***************************************************************************)
(* Library registry                                                        *)
(***************************************************************************)

Rule(pkg, targets, components, cfg) ==
    [pkg |-> pkg, targets |-> targets, components |-> components, config |-> cfg]

\* components None is the empty sequence
KNOWN_TARGETS ==
    [k \in {"sfml", "sdl2", "fmt", "spdlog", "raylib", "nlohmann-json",
            "opengl", "glew", "glfw3", "imgui", "box2d", "glm"} |->
       CASE k = "sfml" -> Rule("SFML",
                <<"SFML::Graphics", "SFML::Window", "SFML::System", "SFML::Audio", "SFML::Network">>,
                <<"Graphics", "Window", "System", "Audio", "Network">>, TRUE)
         [] k = "sdl2" -> Rule("SDL2", <<"SDL2::SDL2">>, <<>>, TRUE)
         [] k = "fmt" -> Rule("fmt", <<"fmt::fmt">>, <<>>, TRUE)
         [] k = "spdlog" -> Rule("spdlog", <<"spdlog::spdlog">>, <<>>, TRUE)
         [] k = "raylib" -> Rule("raylib", <<"raylib">>, <<>>, TRUE)
         [] k = "nlohmann-json" -> Rule("nlohmann_json", <<"nlohmann_json::nlohmann_json">>, <<>>, TRUE)
         [] k = "opengl" -> Rule("OpenGL", <<"OpenGL::GL">>, <<>>, FALSE)
         [] k = "glew" -> Rule("GLEW", <<"GLEW::GLEW">>, <<>>, TRUE)
         [] k = "glfw3" -> Rule("glfw3", <<"glfw">>, <<>>, TRUE)
         [] k = "imgui" -> Rule("imgui", <<"imgui::imgui">>, <<>>, TRUE)
         [] k = "box2d" -> Rule("box2d", <<"box2d">>, <<>>, TRUE)
         [] k = "glm" -> Rule("glm", <<"glm::glm">>, <<>>, TRUE)]

(***************************************************************************)
(* link_library: the managed region of CMakeLists.txt                      *)
(***************************************************************************)

start_marker == "# --- PAIN DEPENDENCIES START ---"
end_marker == "# --- PAIN DEPENDENCIES END ---"

\* last index of the run of \w characters of t that starts at i (i - 1 when empty)
RECURSIVE WordRunEnd(_, _)
WordRunEnd(t, i) ==
    IF i <= Len(t) /\ IsWord(SubSeq(t, i, i)) THEN WordRunEnd(t, i + 1) ELSE i - 1

\* positions where project\((\w+)\) matches
ProjectMatches(content) ==
    { i \in 1..Len(content) :
        /\ i + 7 <= Len(content)
        /\ SubSeq(content, i, i + 7) = "project("
        /\ LET e == WordRunEnd(content, i + 8) IN
             /\ e >= i + 8
             /\ e + 1 <= Len(content)
             /\ SubSeq(content, e + 1, e + 1) = ")" }

\* re.search(r'project\((\w+)\)', content).group(1); "" when there is no match
project_name(content) ==
    LET m == ProjectMatches(content) IN
    IF m = {} THEN ""
    ELSE LET i == CHOOSE k \in m : \A l \in m : k <= l
         IN  SubSeq(content, i + 8, WordRunEnd(content, i + 8))

\* the find_package statement link_library renders for lib
find_pkg(lib) ==
    IF Lower(lib) \in DOMAIN KNOWN_TARGETS
    THEN LET val == KNOWN_TARGETS[Lower(lib)]
             comp_str == IF Len(val.components) > 0
                         THEN "COMPONENTS " \o Join(val.components, " ") ELSE ""
             config_kw == IF val.config THEN "CONFIG" ELSE ""
         IN  Replace("find_package(" \o val.pkg \o " " \o config_kw \o " REQUIRED "
                        \o comp_str \o ")", "  ", " ")
    ELSE "find_package(" \o lib \o " CONFIG REQUIRED)"

\* the target_link_libraries statement link_library renders for lib
link_libs(project, lib) ==
    IF Lower(lib) \in DOMAIN KNOWN_TARGETS
    THEN "target_link_libraries(" \o project \o " PRIVATE "
            \o Join(KNOWN_TARGETS[Lower(lib)].targets, " ") \o ")"
    ELSE "target_link_libraries(" \o project \o " PRIVATE " \o lib \o "::" \o lib \o ")"

\* content after "Create markers if missing"
with_markers(content) ==
    IF ~Contains(start_marker, content)
    THEN content \o "\n" \o start_marker \o "\n" \o end_marker \o "\n"
    ELSE content

\* the duplicate check lost: every call appends
already_linked_never(find, content) == FALSE

\* "Avoid duplicate linking": the early return of link_library
already_linked(find, content) == Contains(find, content)

\* the text link_library writes back, from the pieces of the two splits
new_content(pre, block, rest, find, link) ==
    pre \o start_marker \o (block \o "\n" \o find \o "\n" \o link) \o end_marker \o rest

\* link_library(lib) on the file bytes: the outcome and the bytes on disk after it
link_library_file(bytes, sys, lib) ==
    LET content0 == read_text(bytes)
        pn == project_name(content0)
        content == with_markers(content0)
        find == find_pkg(lib)
        a == Split(content, start_marker)
        b == Split(a[2], end_marker)
    IN  IF pn = "" THEN [status |-> "AttributeError", bytes |-> bytes]
        ELSE IF already_linked(find, content) THEN [status |-> "return", bytes |-> bytes]
        ELSE IF Len(a) # 2 THEN [status |-> "ValueError", bytes |-> bytes]
        ELSE IF Len(b) # 2 THEN [status |-> "ValueError", bytes |-> bytes]
        ELSE [status |-> "linked",
              bytes |-> write_text(new_content(a[1], b[1], b[2], find, link_libs(pn, lib)), sys)]

NoCache == [exists |-> FALSE, text |-> ""]

NoLast == [op |-> "none", arg |-> "", status |-> "", trace |-> <<>>,
           pre_cmake |-> "", pre_deps |-> <<>>, pre_build |-> FALSE,
           pre_cache |-> NoCache, lib_base |-> "", triplet |-> "", generator |-> "",
           cc |-> "", pre_vcpkg |-> "", pre_root |-> "", pre_dirs |-> {}]

\* no run() in progress: no Spinner object exists
NoCall == [cmd |-> "", check |-> TRUE]
NoException == [type |-> "None", returncode |-> 0]

no_run ==
    /\ running = FALSE
    /\ thread = "None"
    /\ frame = 0
    /\ caller = "idle"
    /\ call = NoCall
    /\ executed = <<>>
    /\ exc = NoException

\* the working directory is the project directory name, as init_project made it
in_project(name) ==
    /\ root = name
    /\ dirs = {"src", "build"}

\* pain's link step run on its own on the current CMakeLists.txt
link_library(lib) ==
    LET r == link_library_file(cmake, system, lib) IN
    /\ cmake' = r.bytes
    /\ last' = [NoLast EXCEPT !.op = "link_library", !.arg = lib, !.status = r.status,
                              !.pre_cmake = cmake,
                              !.trace = IF r.status = "linked" THEN <<"write CMakeLists.txt">> ELSE <<>>]
    /\ UNCHANGED <<system, path, vcpkg, vcpkg_configuration, deps, build_exists, cache, installed>>
    /\ UNCHANGED <<cwd_vars, run_vars>>

(***************************************************************************)
(* Build scripts link_library is run on                                    *)
(***************************************************************************)

Heads == { "project(app)\n",
           "project(app)\r\n",
           "project(app)\n# find_package(OpenGL REQUIRED )\n",
           "# no declaration\n" }

Regions == { "",
             start_marker \o "\n" \o end_marker \o "\n",
             start_marker \o "\n\n" \o find_pkg("zlib") \o "\n" \o link_libs("app", "zlib")
                 \o end_marker \o "\n",
             end_marker \o "\n" \o start_marker \o "\n",
             start_marker \o "\n" \o start_marker \o "\n" \o end_marker \o "\n" }

Tails == { "", "install(TARGETS app)\n" }

Scripts == { h \o r \o t : h \in Heads, r \in Regions, t \in Tails }

\* names link_library is called with
LinkNames == { "sfml", "zlib", "opengl" }

InitInject ==
    /\ system \in {"Linux", "Windows"}
    /\ path = {}
    /\ vcpkg = "bootstrapped"
    /\ vcpkg_configuration = "absent"
    /\ deps = <<>>
    /\ cmake \in Scripts
    /\ build_exists = FALSE
    /\ cache = NoCache
    /\ installed = FALSE
    /\ last = NoLast
    /\ in_project("app")
    /\ no_run

NextInject == \E lib \in LinkNames : link_library(lib)

SpecInject == InitInject /\ [][NextInject]_vars

(***************************************************************************)
(* Toolchain detection                                                     *)
(***************************************************************************)

command_exists(cmd) == cmd \in path

\* fatal(): the message is printed and the process exits with status 1
FATAL == "fatal"

\* detect_triplet with clang++ probed before g++ and the MinGW make
detect_triplet_clang_first ==
    IF system = "Windows"
    THEN IF command_exists("cl") THEN "x64-windows"
         ELSE IF command_exists("clang++") THEN "x64-windows"
         ELSE IF command_exists("g++") \/ command_exists("mingw32-make") THEN "x64-mingw-dynamic"
         ELSE FATAL
    ELSE IF system = "Linux" THEN "x64-linux"
    ELSE IF system = "Darwin" THEN "x64-osx"
    ELSE FATAL

detect_triplet ==
    IF system = "Windows"
    THEN IF command_exists("cl") THEN "x64-windows"
         ELSE IF command_exists("g++") \/ command_exists("mingw32-make") THEN "x64-mingw-dynamic"
         ELSE IF command_exists("clang++") THEN "x64-windows"
         ELSE FATAL
    ELSE IF system = "Linux" THEN "x64-linux"
    ELSE IF system = "Darwin" THEN "x64-osx"
    ELSE FATAL

\* None is "None"
detect_cmake_generator ==
    IF system = "Windows"
    THEN IF command_exists("ninja") THEN "Ninja"
         ELSE IF command_exists("cl") THEN "NMake Makefiles"
         ELSE IF command_exists("mingw32-make") THEN "MinGW Makefiles"
         ELSE IF command_exists("make") THEN "Unix Makefiles" ELSE "None"
    ELSE IF command_exists("ninja") THEN "Ninja" ELSE "Unix Makefiles"

\* the CC the build forces for the MinGW triplet ("" when it sets none)
mingw_cc(triplet) ==
    IF triplet = "x64-mingw-dynamic"
    THEN IF command_exists("x86_64-w64-mingw32-gcc") THEN "x86_64-w64-mingw32-gcc"
         ELSE IF command_exists("gcc") THEN "gcc" ELSE ""
    ELSE ""

(***************************************************************************)
(* External commands, vcpkg bootstrap and the build cache guard            *)
(***************************************************************************)

\* run(cmd, msg=...): the commands executed; a failing command is executed
\* once more to show its output (and fails again) before the error is raised
run(cmd, ok) == IF ok THEN <<cmd>> ELSE <<cmd, cmd>>

\* ensure_vcpkg(): the vcpkg root after it, whether it ended in fatal(), its commands
ensure_vcpkg(clone_ok, boot_ok) ==
    IF vcpkg = "bootstrapped" THEN [vcpkg |-> vcpkg, fatal |-> FALSE, trace |-> <<>>]
    ELSE LET clone == IF vcpkg = "absent" THEN run("git clone", clone_ok) ELSE <<>> IN
         IF vcpkg = "absent" /\ ~clone_ok
         THEN [vcpkg |-> "absent", fatal |-> TRUE, trace |-> clone]
         ELSE IF ~boot_ok
         THEN [vcpkg |-> "cloned", fatal |-> TRUE, trace |-> clone \o run("bootstrap-vcpkg", boot_ok)]
         ELSE [vcpkg |-> "bootstrapped", fatal |-> FALSE,
               trace |-> clone \o run("bootstrap-vcpkg", boot_ok)]

\* the guard's test with the comparison inverted
triplet_changed_inverted(content) ==
    Contains("VCPKG_TARGET_TRIPLET", content) /\ Contains(detect_triplet, content)

\* the guard's test without the check for the token
triplet_changed_no_token(content) == ~Contains(detect_triplet, content)

\* the guard's test on the text of build/CMakeCache.txt
triplet_changed(content) ==
    Contains("VCPKG_TARGET_TRIPLET", content) /\ ~Contains(detect_triplet, content)

\* cleanup_bad_vcpkg_config(root): what it leaves of vcpkg-configuration.json
\* and of the build directory, whether detect_triplet ended it in fatal()
cleanup_bad_vcpkg_config ==
    LET unlink == vcpkg_configuration \in {"default-triplet", "malformed"}
        config == IF unlink THEN "absent" ELSE vcpkg_configuration
        t1 == IF unlink THEN <<"unlink vcpkg-configuration.json">> ELSE <<>>
        content == read_text(cache.text)
        probes == build_exists /\ cache.exists /\ Contains("VCPKG_TARGET_TRIPLET", content)
    IN  IF probes /\ detect_triplet = FATAL
        THEN [config |-> config, fatal |-> TRUE, build_exists |-> build_exists,
              cache |-> cache, trace |-> t1]
        ELSE IF build_exists /\ cache.exists /\ triplet_changed(content)
        THEN [config |-> config, fatal |-> FALSE, build_exists |-> FALSE,
              cache |-> NoCache, trace |-> t1 \o <<"rmtree build">>]
        ELSE [config |-> config, fatal |-> FALSE, build_exists |-> build_exists,
              cache |-> cache, trace |-> t1]

(***************************************************************************)
(* Dependency operations                                                   *)
(***************************************************************************)

\* lib.split('[')[0].strip()
normalize_lib_name(lib) == Strip(Split(lib, "[")[1])

\* some declared dependency has the base name lib_base
declared(ds, lib_base) == \E i \in 1..Len(ds) : normalize_lib_name(ds[i]) = lib_base

\* the dependency list add_library leaves in vcpkg.json
add_dependency(ds, lib) ==
    IF ~declared(ds, normalize_lib_name(lib)) THEN Append(ds, lib) ELSE ds

RECURSIVE remove_dependency(_, _)
\* the dependency list the remove command writes
remove_dependency(ds, lib) ==
    IF Len(ds) = 0 THEN <<>>
    ELSE (IF normalize_lib_name(Head(ds)) # normalize_lib_name(lib) THEN <<Head(ds)>> ELSE <<>>)
         \o remove_dependency(Tail(ds), lib)

Snapshot(op, arg) ==
    [NoLast EXCEPT !.op = op, !.arg = arg, !.pre_cmake = cmake, !.pre_deps = deps,
                   !.pre_build = build_exists, !.pre_cache = cache,
                   !.pre_vcpkg = vcpkg, !.pre_root = root, !.pre_dirs = dirs]

\* a command that ends before it has done anything, with this outcome
ends_at_once(op, arg, status) ==
    /\ last' = [Snapshot(op, arg) EXCEPT !.status = status]
    /\ UNCHANGED <<system, path, vcpkg, vcpkg_configuration, deps, cmake, build_exists,
                   cache, installed>>
    /\ UNCHANGED <<cwd_vars, run_vars>>

\* the build script synchronized first, the install command run after it
link_and_install(lib_base, install_ok) ==
    LET l == link_library_file(cmake, system, lib_base)
        wrote == IF l.status = "linked" THEN <<"write CMakeLists.txt">> ELSE <<>>
    IN  IF l.status \notin {"linked", "return"}
        THEN [status |-> l.status, cmake |-> cmake, installed |-> FALSE, trace |-> <<>>]
        ELSE [status |-> IF install_ok THEN "ok" ELSE "CalledProcessError",
              cmake |-> l.bytes, installed |-> install_ok,
              trace |-> wrote \o run("vcpkg install", install_ok)]

\* steps 2 and 3 of add_library: run vcpkg install, then link_library(lib_base);
\* a failing install raises before step 3
install_and_link(lib_base, install_ok) ==
    LET l == link_library_file(cmake, system, lib_base)
        wrote == IF l.status = "linked" THEN <<"write CMakeLists.txt">> ELSE <<>>
    IN  IF ~install_ok
        THEN [status |-> "CalledProcessError", cmake |-> cmake, installed |-> FALSE,
              trace |-> run("vcpkg install", install_ok)]
        ELSE [status |-> IF l.status \in {"linked", "return"} THEN "ok" ELSE l.status,
              cmake |-> l.bytes, installed |-> TRUE,
              trace |-> run("vcpkg install", install_ok) \o wrote]

\* pain add <lib>
add_library(lib, clone_ok, boot_ok, install_ok) ==
    LET e == ensure_vcpkg(clone_ok, boot_ok)
        g == cleanup_bad_vcpkg_config
        lib_base == normalize_lib_name(lib)
        new_deps == add_dependency(deps, lib)
        triplet == detect_triplet
        t == install_and_link(lib_base, install_ok)
        status == IF e.fatal THEN "fatal: vcpkg"
                  ELSE IF g.fatal \/ triplet = FATAL THEN "fatal: detect_triplet"
                  ELSE t.status
        guarded == ~e.fatal /\ ~g.fatal
        trace == e.trace
                 \o (IF e.fatal THEN <<>> ELSE g.trace)
                 \o (IF guarded /\ new_deps # deps THEN <<"write vcpkg.json">> ELSE <<>>)
                 \o (IF guarded /\ triplet # FATAL THEN t.trace ELSE <<>>)
    IN  IF root = "None" THEN ends_at_once("add_library", lib, "fatal: Not in a PAIN project.")
        ELSE
        /\ vcpkg' = e.vcpkg
        /\ vcpkg_configuration' = IF e.fatal THEN vcpkg_configuration ELSE g.config
        /\ build_exists' = IF e.fatal THEN build_exists ELSE g.build_exists
        /\ cache' = IF e.fatal THEN cache ELSE g.cache
        /\ deps' = IF guarded THEN new_deps ELSE deps
        /\ installed' = (installed \/ (guarded /\ triplet # FATAL /\ t.installed))
        /\ cmake' = IF guarded /\ triplet # FATAL THEN t.cmake ELSE cmake
        /\ last' = [Snapshot("add_library", lib) EXCEPT
                      !.status = status, !.trace = trace,
                      !.lib_base = IF guarded THEN lib_base ELSE "",
                      !.triplet = IF guarded /\ triplet # FATAL THEN triplet ELSE ""]
        /\ UNCHANGED <<system, path>>
        /\ UNCHANGED <<cwd_vars, run_vars>>

\* pain remove <lib>; outside a project root is None and root / "vcpkg.json"
\* raises TypeError
remove(lib) ==
    IF root = "None" THEN ends_at_once("remove", lib, "TypeError")
    ELSE
    /\ deps' = remove_dependency(deps, lib)
    /\ last' = [Snapshot("remove", lib) EXCEPT
                  !.status = "ok", !.trace = <<"write vcpkg.json">>,
                  !.lib_base = normalize_lib_name(lib)]
    /\ UNCHANGED <<system, path, vcpkg, vcpkg_configuration, cmake, build_exists, cache, installed>>
    /\ UNCHANGED <<cwd_vars, run_vars>>

(***************************************************************************)
(* Build                                                                   *)
(***************************************************************************)

\* what the configure step records in build/CMakeCache.txt for
\* -DVCPKG_TARGET_TRIPLET and -DVCPKG_HOST_TRIPLET
cmake_cache(triplet) ==
    "VCPKG_TARGET_TRIPLET:STRING=" \o triplet \o "\n"
      \o "VCPKG_HOST_TRIPLET:STRING=" \o triplet \o "\n"

\* pain build
build_project(clone_ok, boot_ok, configure_ok, compile_ok) ==
    LET e == ensure_vcpkg(clone_ok, boot_ok)
        g == cleanup_bad_vcpkg_config
        guarded == ~e.fatal /\ ~g.fatal
        triplet == detect_triplet
        resolved == guarded /\ triplet # FATAL
        status == IF e.fatal THEN "fatal: vcpkg"
                  ELSE IF ~resolved THEN "fatal: detect_triplet"
                  ELSE IF ~configure_ok \/ ~compile_ok THEN "CalledProcessError"
                  ELSE "ok"
        trace == e.trace
                 \o (IF e.fatal THEN <<>> ELSE g.trace)
                 \o (IF guarded THEN <<"mkdir build">> ELSE <<>>)
                 \o (IF resolved THEN run("cmake configure", configure_ok) ELSE <<>>)
                 \o (IF resolved /\ configure_ok THEN run("cmake --build", compile_ok) ELSE <<>>)
    IN  /\ vcpkg' = e.vcpkg
        /\ vcpkg_configuration' = IF e.fatal THEN vcpkg_configuration ELSE g.config
        /\ build_exists' = IF e.fatal THEN build_exists
                           ELSE IF g.fatal THEN g.build_exists ELSE TRUE
        /\ cache' = IF e.fatal THEN cache
                    ELSE IF resolved /\ configure_ok
                    THEN [exists |-> TRUE, text |-> cmake_cache(triplet)]
                    ELSE g.cache
        /\ last' = [Snapshot("build_project", "Debug") EXCEPT
                      !.status = status, !.trace = trace,
                      !.triplet = IF resolved THEN triplet ELSE "",
                      !.generator = IF resolved THEN detect_cmake_generator ELSE "",
                      !.cc = IF resolved THEN mingw_cc(triplet) ELSE ""]
        /\ UNCHANGED <<system, path, deps, cmake, installed>>
        /\ UNCHANGED <<cwd_vars, run_vars>>

\* pain clean
clean_project ==
    /\ build_exists' = FALSE
    /\ cache' = NoCache
    /\ installed' = FALSE
    /\ last' = [Snapshot("clean_project", "") EXCEPT
                  !.status = "ok", !.trace = <<"rmtree build", "rmtree vcpkg_installed">>]
    /\ UNCHANGED <<system, path, vcpkg, vcpkg_configuration, deps, cmake>>
    /\ UNCHANGED <<cwd_vars, run_vars>>

(***************************************************************************)
(* The project init_project leaves, and what happens around pain           *)
(***************************************************************************)

\* the CMakeLists.txt init_project writes
cmake_content(name) ==
    "cmake_minimum_required(VERSION 3.21)\n"
      \o "project(" \o name \o ")\n"
      \o "set(CMAKE_CXX_STANDARD 20)\n"
      \o "set(CMAKE_CXX_STANDARD_REQUIRED ON)\n"
      \o "add_executable(" \o name \o " src/main.cpp)\n"
      \o start_marker \o "\n"
      \o end_marker \o "\n"

\* the project directory after pain init app
fresh_project ==
    /\ vcpkg = "bootstrapped"
    /\ vcpkg_configuration = "absent"
    /\ deps = <<>>
    /\ cmake = write_text(cmake_content("app"), system)
    /\ build_exists = TRUE
    /\ cache = NoCache
    /\ installed = FALSE
    /\ last = NoLast
    /\ in_project("app")
    /\ no_run

\* a compiler or build tool is installed or removed, or the project
\* directory is used from another system
toolchain_change(h) ==
    /\ <<system, path>> # <<h.system, h.path>>
    /\ system' = h.system
    /\ path' = h.path
    /\ last' = Snapshot("toolchain_change", "")
    /\ UNCHANGED <<vcpkg, vcpkg_configuration, deps, cmake, build_exists, cache, installed>>
    /\ UNCHANGED <<cwd_vars, run_vars>>

\* cmake is run by hand (or by an IDE) in build/ without the vcpkg toolchain:
\* the cache it leaves records no triplet
plain_configure ==
    /\ build_exists' = TRUE
    /\ cache' = [exists |-> TRUE, text |-> "CMAKE_BUILD_TYPE:STRING=Debug\n"]
    /\ last' = Snapshot("plain_configure", "")
    /\ UNCHANGED <<system, path, vcpkg, vcpkg_configuration, deps, cmake, installed>>
    /\ UNCHANGED <<cwd_vars, run_vars>>

Host(sys, cmds) == [system |-> sys, path |-> cmds]

\* the results the vcpkg download and bootstrap can have when ensure_vcpkg runs them
CloneResults == IF vcpkg = "absent" THEN BOOLEAN ELSE {TRUE}
BootstrapResults == IF vcpkg # "bootstrapped" THEN BOOLEAN ELSE {TRUE}
\* the results of the compile step, which runs only after a successful configure
CompileResults(configure_ok) == IF configure_ok THEN BOOLEAN ELSE {TRUE}

(***************************************************************************)
(* Spec: add and remove on a freshly initialised project                   *)
(***************************************************************************)

\* the names given to pain add / pain remove
Names == { "sfml", "SFML[audio]", "zlib" }

Init ==
    /\ system = "Linux"
    /\ path = {"g++", "make"}
    /\ fresh_project

Next ==
    \/ \E lib \in Names, v \in CloneResults, b \in BootstrapResults, install_ok \in BOOLEAN :
          add_library(lib, v, b, install_ok)
    \/ \E lib \in Names : remove(lib)

Spec == Init /\ [][Next]_vars

(***************************************************************************)
(* SpecGuard: builds and installs while the toolchain changes              *)
(***************************************************************************)

GuardHosts == { Host("Linux", {"g++", "make"}),
                Host("Windows", {"cl"}),
                Host("Windows", {"g++", "mingw32-make"}),
                Host("Windows", {}) }

\* a fresh project, possibly with a vcpkg-configuration.json added by hand
\* and with the vcpkg root removed since pain init
InitGuard ==
    /\ \E h \in GuardHosts : system = h.system /\ path = h.path
    /\ vcpkg \in {"absent", "bootstrapped"}
    /\ vcpkg_configuration \in {"absent", "default-triplet"}
    /\ deps = <<>>
    /\ cmake = write_text(cmake_content("app"), system)
    /\ build_exists = TRUE
    /\ cache = NoCache
    /\ installed = FALSE
    /\ last = NoLast
    /\ in_project("app")
    /\ no_run

NextGuard ==
    \/ \E v \in CloneResults, b \in BootstrapResults, c \in BOOLEAN :
          \E k \in CompileResults(c) : build_project(v, b, c, k)
    \/ \E v \in CloneResults, b \in BootstrapResults, i \in BOOLEAN :
          add_library("zlib", v, b, i)
    \/ clean_project
    \/ plain_configure
    \/ \E h \in GuardHosts : toolchain_change(h)

SpecGuard == InitGuard /\ [][NextGuard]_vars

(***************************************************************************)
(* SpecResolve: a build on every host                                      *)
(***************************************************************************)

Systems == { "Windows", "Linux", "Darwin", "FreeBSD" }

Commands == { "cl", "g++", "clang++", "mingw32-make", "make", "ninja", "gcc" }

InitResolve ==
    /\ system \in Systems
    /\ path \in SUBSET Commands
    /\ fresh_project

NextResolve ==
    \E v \in CloneResults, b \in BootstrapResults, c \in BOOLEAN :
        \E k \in CompileResults(c) : build_project(v, b, c, k)

SpecResolve == InitResolve /\ [][NextResolve]_vars

(***************************************************************************)
(* SpecInit: pain run from a directory that holds no project yet           *)
(***************************************************************************)

\* a character the pattern [a-zA-Z0-9_-] accepts
NameChar(c) == IsWord(c) \/ c = "-"

\* validate_project_name_fs(name); re.match with $ also accepts one newline
\* after the last character
validate_project_name_fs(name) ==
    LET n == Len(name)
        body == IF n > 1 /\ SubSeq(name, n, n) = "\n" THEN SubSeq(name, 1, n - 1) ELSE name
    IN  /\ n > 0
        /\ \A i \in 1..Len(body) : NameChar(SubSeq(body, i, i))
        /\ SubSeq(name, 1, 1) \notin {"-", "."}

\* what init_project creates, in order
scaffold == << "mkdir root", "mkdir src", "mkdir build", "write src/main.cpp",
               "write vcpkg.json", "write CMakeLists.txt", "write .gitignore" >>

\* pain init <name>
init_project(name, clone_ok, boot_ok) ==
    LET e == ensure_vcpkg(clone_ok, boot_ok)
        status == IF e.fatal THEN "fatal: vcpkg"
                  ELSE IF ~validate_project_name_fs(name) THEN "fatal: Invalid project name"
                  ELSE IF name \in dirs THEN "fatal: Directory already exists"
                  ELSE "ok"
    IN  /\ vcpkg' = e.vcpkg
        /\ dirs' = IF status = "ok" THEN dirs \cup {name} ELSE dirs
        /\ last' = [Snapshot("init_project", name) EXCEPT
                      !.status = status,
                      !.trace = e.trace \o (IF status = "ok" THEN scaffold ELSE <<>>)]
        /\ UNCHANGED <<system, path, vcpkg_configuration, deps, cmake, build_exists, cache,
                       installed, root>>
        /\ UNCHANGED run_vars

\* the user enters a project directory init_project has made: the project
\* files are the ones init_project wrote
cd(name) ==
    /\ root = "None"
    /\ name \in dirs
    /\ root' = name
    /\ dirs' = {"src", "build"}
    /\ vcpkg_configuration' = "absent"
    /\ deps' = <<>>
    /\ cmake' = write_text(cmake_content(name), system)
    /\ build_exists' = TRUE
    /\ cache' = NoCache
    /\ installed' = FALSE
    /\ last' = Snapshot("cd", name)
    /\ UNCHANGED <<system, path, vcpkg>>
    /\ UNCHANGED run_vars

\* the names given to pain init
InitNames == { "app", "my_lib", "my app", "-app", "" }

\* the first use of pain on a host: no vcpkg root yet, no project
InitInit ==
    /\ system = "Linux"
    /\ path = {"g++", "make"}
    /\ vcpkg = "absent"
    /\ vcpkg_configuration = "absent"
    /\ deps = <<>>
    /\ cmake = ""
    /\ build_exists = FALSE
    /\ cache = NoCache
    /\ installed = FALSE
    /\ last = NoLast
    /\ root = "None"
    /\ dirs = {}
    /\ no_run

NextInit ==
    \/ \E name \in InitNames, v \in CloneResults, b \in BootstrapResults :
          init_project(name, v, b)
    \/ \E name \in InitNames : cd(name)
    \/ \E v \in CloneResults, b \in BootstrapResults, i \in BOOLEAN :
          add_library("zlib", v, b, i)
    \/ remove("zlib")

SpecInit == InitInit /\ [][NextInit]_vars

(***************************************************************************)
(* SpecRun: run(cmd, msg=...) step by step, with the Spinner thread        *)
(***************************************************************************)

project_vars == <<system, path, vcpkg, vcpkg_configuration, deps, cmake, build_exists,
                  cache, installed, last, root, dirs>>

\* the characters spin() cycles through
spinner == << "|", "/", "-", "\\" >>

\* with Spinner(msg): __enter__ sets running and starts the thread
run_enter(cmd, check) ==
    /\ caller \in {"idle", "returned", "raised"}
    /\ running' = TRUE
    /\ thread' = "test"
    /\ frame' = 0
    /\ call' = [cmd |-> cmd, check |-> check]
    /\ executed' = <<>>
    /\ exc' = NoException
    /\ caller' = "try"
    /\ UNCHANGED project_vars

\* subprocess.check_call (subprocess.call if not check) has run cmd, which
\* exited with returncode
run_try(returncode) ==
    /\ caller = "try"
    /\ executed' = Append(executed, returncode)
    /\ exc' = IF call.check /\ returncode # 0
              THEN [type |-> "CalledProcessError", returncode |-> returncode]
              ELSE NoException
    /\ caller' = IF call.check /\ returncode # 0 THEN "except" ELSE "exit"
    /\ UNCHANGED <<project_vars, running, thread, frame, call>>

\* the executable of cmd cannot be started: not a CalledProcessError, the
\* except clause does not apply
run_try_not_started ==
    /\ caller = "try"
    /\ exc' = [type |-> "FileNotFoundError", returncode |-> 0]
    /\ caller' = "exit"
    /\ UNCHANGED <<project_vars, running, thread, frame, call, executed>>

\* except CalledProcessError as e: subprocess.call(cmd) shows the output,
\* whatever it returns; raise e
run_except(returncode) ==
    /\ caller = "except"
    /\ executed' = Append(executed, returncode)
    /\ caller' = "exit"
    /\ UNCHANGED <<project_vars, running, thread, frame, call, exc>>

\* Spinner.__exit__: self.running = False
run_exit ==
    /\ caller = "exit"
    /\ running' = FALSE
    /\ caller' = "join"
    /\ UNCHANGED <<project_vars, thread, frame, call, executed, exc>>

\* a join that does not wait for the thread
joined_at_once == TRUE

\* self.thread.join() returns
joined == thread = "done"

\* Spinner.__exit__ after the join: run returns, or the exception leaves it
run_join ==
    /\ caller = "join"
    /\ joined
    /\ caller' = IF exc = NoException THEN "returned" ELSE "raised"
    /\ UNCHANGED <<project_vars, running, thread, frame, call, executed, exc>>

\* spin(): while self.running
spin_test ==
    /\ thread = "test"
    /\ thread' = IF running THEN "write" ELSE "clear"
    /\ UNCHANGED <<project_vars, running, frame, caller, call, executed, exc>>

\* spin(): write next(spinner), flush, sleep
spin_write ==
    /\ thread = "write"
    /\ frame' = (frame + 1) % Len(spinner)
    /\ thread' = "test"
    /\ UNCHANGED <<project_vars, running, caller, call, executed, exc>>

\* spin(): clear the line; the thread ends
spin_clear ==
    /\ thread = "clear"
    /\ thread' = "done"
    /\ UNCHANGED <<project_vars, running, frame, caller, call, executed, exc>>

\* the commands pain runs with a progress message
RunCommands == { "git clone", "bootstrap-vcpkg", "vcpkg install", "cmake configure",
                 "cmake --build" }

\* every call of run in pain.py leaves check at its default
RunChecks == { TRUE }

\* the exit statuses of a command
ReturnCodes == { 0, 1, 2 }

InitRun ==
    /\ system = "Linux"
    /\ path = {"g++", "make"}
    /\ fresh_project

NextRun ==
    \/ \E cmd \in RunCommands, check \in RunChecks : run_enter(cmd, check)
    \/ \E returncode \in ReturnCodes : run_try(returncode)
    \/ run_try_not_started
    \/ \E returncode \in ReturnCodes : run_except(returncode)
    \/ run_exit
    \/ run_join
    \/ spin_test
    \/ spin_write
    \/ spin_clear

SpecRun == InitRun /\ [][NextRun]_vars

(***************************************************************************)
(* Properties of link_library (checked under SpecInject)                   *)
(***************************************************************************)

IsPrefix(s, t) == Len(s) <= Len(t) /\ SubSeq(t, 1, Len(s)) = s

Linked == last.op = "link_library"

\* C2: running link_library a second time for the same library leaves the
\* file byte-identical to the file after the first run, for registered and
\* unregistered libraries and whether or not the markers were there.
C2_InjectTwiceSameBytes ==
    Linked => link_library_file(cmake, system, last.arg).bytes = cmake

\* a first run that rewrote the file (so the second run has something to repeat)
C2_Witness ==
    /\ Linked /\ last.status = "linked" /\ cmake # last.pre_cmake
    /\ ~Contains(start_marker, last.pre_cmake)

\* the bytes in front of the first start marker, and behind the last end marker
BeforeStart(bytes) == Split(bytes, start_marker)[1]
AfterEnd(bytes) == LET p == Split(bytes, end_marker) IN p[Len(p)]

\* C3: link_library changes no byte outside the managed region: the bytes
\* before the start marker and after the end marker are kept, and when the
\* markers are absent the previous bytes are a prefix of the new file.
C3_InjectKeepsOutsideBytes ==
    Linked =>
      IF Contains(start_marker, last.pre_cmake)
      THEN /\ BeforeStart(cmake) = BeforeStart(last.pre_cmake)
           /\ AfterEnd(cmake) = AfterEnd(last.pre_cmake)
      ELSE IsPrefix(last.pre_cmake, cmake)

\* one start marker followed by one end marker
WellFormed(text) ==
    /\ Cardinality(Occurrences(start_marker, text)) = 1
    /\ Cardinality(Occurrences(end_marker, text)) = 1
    /\ Find(start_marker, text) < Find(end_marker, text)

\* the text between the markers
Region(text) == Split(Split(text, start_marker)[2], end_marker)[1]

\* C4: link_library is a no-op exactly when the rendered find-statement
\* occurs between the markers; otherwise (also when the text occurs only
\* outside the markers) the pair is appended at the end of the managed
\* region, after the pairs already there, which are kept.
C4_NoOpIffInRegion ==
    (Linked /\ last.status # "AttributeError"
       /\ WellFormed(with_markers(read_text(last.pre_cmake)))) =>
      LET pre == with_markers(read_text(last.pre_cmake))
          post == read_text(cmake)
          f == find_pkg(last.arg)
      IN  IF Contains(f, Region(pre))
          THEN cmake = last.pre_cmake
          ELSE /\ WellFormed(post)
               /\ IsPrefix(Region(pre), Region(post))
               /\ Contains(f, SubSeq(Region(post), Len(Region(pre)) + 1, Len(Region(post))))

\* the rule the registry gives for a name, or the default rule
ExpectedRule(lib) ==
    IF Lower(lib) \in DOMAIN KNOWN_TARGETS THEN KNOWN_TARGETS[Lower(lib)]
    ELSE Rule(lib, <<lib \o "::" \o lib>>, <<>>, TRUE)

\* find_package(<pkg> [CONFIG] REQUIRED [COMPONENTS <c> ...]), single spaces
ExpectedFind(lib) ==
    LET r == ExpectedRule(lib) IN
    "find_package("
      \o Join(<<r.pkg>> \o (IF r.config THEN <<"CONFIG">> ELSE <<>>) \o <<"REQUIRED">>
                \o (IF Len(r.components) > 0 THEN <<"COMPONENTS">> \o r.components ELSE <<>>), " ")
      \o ")"

\* target_link_libraries(<project> PRIVATE <targets...>)
ExpectedLink(project, lib) ==
    "target_link_libraries(" \o Join(<<project, "PRIVATE">> \o ExpectedRule(lib).targets, " ") \o ")"

\* C5: the pair link_library writes is exactly
\* find_package(<pkg> [CONFIG] REQUIRED [COMPONENTS ...]) followed by
\* target_link_libraries(<project> PRIVATE <targets...>), tokens separated
\* by single spaces and nothing else.
C5_RenderedExactly ==
    (Linked /\ last.status = "linked") =>
      Contains("\n" \o ExpectedFind(last.arg) \o "\n"
                  \o ExpectedLink(project_name(read_text(cmake)), last.arg) \o end_marker,
               read_text(cmake))

(***************************************************************************)
(* Properties of the dependency list (checked under Spec)                  *)
(***************************************************************************)

\* the identity key of a dependency name: the bracketed feature suffix
\* stripped, case-folded, underscores replaced by hyphens
IdentityKey(name) == Replace(Lower(Split(name, "[")[1]), "_", "-")

\* C1: after any sequence of add and remove on a freshly initialised
\* project, no two entries of the dependency list have the same identity key.
C1_UniqueIdentityKeys ==
    \A i, j \in 1..Len(deps) :
        i # j => IdentityKey(deps[i]) # IdentityKey(deps[j])

KeyPresent(ds, name) == \E i \in 1..Len(ds) : IdentityKey(ds[i]) = IdentityKey(name)

\* C8: an add whose identity key is already in the manifest, and a remove
\* whose key is absent, leave the dependency sequence as it was and do not
\* fail on that account (the add goes on to its install step).
C8_DuplicateAddAbsentRemoveNoOp ==
    /\ (last.op = "add_library" /\ KeyPresent(last.pre_deps, last.arg)) =>
          /\ deps = last.pre_deps
          /\ \E i \in 1..Len(last.trace) : last.trace[i] = "vcpkg install"
    /\ (last.op = "remove" /\ ~KeyPresent(last.pre_deps, last.arg)) =>
          /\ deps = last.pre_deps
          /\ last.status = "ok"

\* C9: the key add and remove compare by is the name with the bracketed
\* feature suffix stripped and case-folded; "SFML[audio]" and "sfml" get the
\* same key.
C9_NormalizeFoldsCase ==
    (last.op \in {"add_library", "remove"} /\ last.lib_base # "") =>
        /\ last.lib_base = Lower(Split(last.arg, "[")[1])
        /\ (last.arg = "SFML[audio]" => last.lib_base = normalize_lib_name("sfml"))

(***************************************************************************)
(* Properties of the build cache guard (checked under SpecGuard)           *)
(***************************************************************************)

Triplets == { "x64-windows", "x64-mingw-dynamic", "x64-linux", "x64-osx" }

Occurs(ev, trace) == \E i \in 1..Len(trace) : trace[i] = ev

\* the last command was a build or an install that got as far as the guard
Guarded == last.op \in {"build_project", "add_library"} /\ last.status # "fatal: vcpkg"

\* the cache the command found records the target identity A
Recorded(A) ==
    /\ last.pre_build /\ last.pre_cache.exists
    /\ Contains("VCPKG_TARGET_TRIPLET:STRING=" \o A \o "\n", last.pre_cache.text)

\* the cache the command found carries no VCPKG_TARGET_TRIPLET token
Unrecorded ==
    /\ last.pre_build /\ last.pre_cache.exists
    /\ ~Contains("VCPKG_TARGET_TRIPLET", last.pre_cache.text)

ToolSteps == { "cmake configure", "cmake --build", "vcpkg install" }

\* C6: when the cache records identity A and the host resolves to B, a
\* build or install deletes the build directory before any configure,
\* compile or install command if B # A, and leaves the directory and its
\* cache as they are if B = A.
C6_GuardDeletesOnDrift ==
    \A A \in Triplets :
      (Guarded /\ Recorded(A) /\ detect_triplet # FATAL) =>
        IF detect_triplet # A
        THEN /\ Occurs("rmtree build", last.trace)
             /\ \A i \in 1..Len(last.trace) :
                  last.trace[i] \in ToolSteps =>
                    \E j \in 1..(i - 1) : last.trace[j] = "rmtree build"
        ELSE /\ ~Occurs("rmtree build", last.trace)
             /\ build_exists
             /\ cache = last.pre_cache

\* a build that found the cache of another triplet, reset the directory and configured again
C6_Witness ==
    /\ last.op = "build_project"
    /\ \E A \in Triplets : Recorded(A) /\ detect_triplet \notin {A, FATAL}
    /\ Occurs("rmtree build", last.trace)
    /\ Occurs("cmake configure", last.trace)

\* an install that found the cache of the current triplet
C6_WitnessSame ==
    /\ last.op = "add_library"
    /\ Recorded(detect_triplet)
    /\ Occurs("vcpkg install", last.trace)

TableIdentity ==
    CASE system = "Windows" /\ "cl" \in path -> "x64-windows"
      [] system = "Windows" /\ "cl" \notin path /\ path \cap {"g++", "mingw32-make"} # {}
            -> "x64-mingw-dynamic"
      [] system = "Windows" /\ path \cap {"cl", "g++", "mingw32-make"} = {} /\ "clang++" \in path
            -> "x64-windows"
      [] system = "Windows" /\ path \cap {"cl", "g++", "mingw32-make", "clang++"} = {} -> "fails"
      [] system = "Linux" -> "x64-linux"
      [] system = "Darwin" -> "x64-osx"
      [] OTHER -> "fails"

\* the generator of the decision table: the first available in the order of the OS
TableGenerator ==
    LET order == IF system = "Windows"
                 THEN << <<"ninja", "Ninja">>, <<"cl", "NMake Makefiles">>,
                         <<"mingw32-make", "MinGW Makefiles">>, <<"make", "Unix Makefiles">> >>
                 ELSE << <<"ninja", "Ninja">> >>
        avail == { i \in 1..Len(order) : order[i][1] \in path }
    IN  IF avail # {} THEN order[CHOOSE i \in avail : \A j \in avail : i <= j][2]
        ELSE IF system = "Windows" THEN "None" ELSE "Unix Makefiles"

\* C10: a build resolves the target identity and the generator of the
\* decision tables for the host it runs on, and fails without configuring
\* when the table has no identity for the host.
C10_ResolveFollowsTables ==
    last.op = "build_project" =>
        IF TableIdentity = "fails"
        THEN /\ last.status = "fatal: detect_triplet"
             /\ ~Occurs("cmake configure", last.trace)
        ELSE /\ last.triplet = TableIdentity
             /\ last.generator = TableGenerator

\* a Windows build without cl where g++ wins over clang++ and the MinGW make is the generator
C10_Witness ==
    /\ last.op = "build_project" /\ system = "Windows"
    /\ "cl" \notin path /\ "ninja" \notin path
    /\ {"g++", "clang++", "mingw32-make", "make"} \subseteq path
    /\ last.triplet = "x64-mingw-dynamic" /\ last.generator = "MinGW Makefiles"

(***************************************************************************)
(* Validation errors (checked under SpecInit)                              *)
(***************************************************************************)

\* how a command that found its input invalid, or found no project, ends
ValidationErrors == { "fatal: Invalid project name", "fatal: Not in a PAIN project.",
                      "TypeError" }

\* C11: an init, add or remove that ends with an invalid-name or
\* project-not-found error has run no command and created, written or
\* deleted nothing: the vcpkg root, the directories and the project files
\* are as they were before it.
C11_ValidationBeforeEffects ==
    (last.op \in {"init_project", "add_library", "remove"} /\ last.status \in ValidationErrors)
    => /\ last.trace = <<>>
       /\ vcpkg = last.pre_vcpkg
       /\ dirs = last.pre_dirs
       /\ deps = last.pre_deps
       /\ cmake = last.pre_cmake
       /\ build_exists = last.pre_build
       /\ cache = last.pre_cache

(***************************************************************************)
(* The order of the steps of pain add (checked under SpecGuard)            *)
(***************************************************************************)

\* every a in the steps comes before every b
Precedes(a, b, trace) ==
    \A i, j \in 1..Len(trace) : (trace[i] = a /\ trace[j] = b) => i < j

\* the last command was a pain add that got as far as the install command
AddInstalls == last.op = "add_library" /\ Occurs("vcpkg install", last.trace)

\* the build script with the library of the last pain add linked into it
Synchronized == link_library_file(last.pre_cmake, system, last.lib_base).bytes

\* C12 (as stated): in a pain add that reaches the install command, the
\* guard's deletion comes before the manifest write, the manifest write
\* before the write of the build script, and the write of the build script
\* before the install command; whether the install fails or not, the
\* manifest declares the library and the build script links it.
C12_InjectBeforeInstall ==
    AddInstalls
    => /\ Precedes("rmtree build", "write vcpkg.json", last.trace)
       /\ Precedes("write vcpkg.json", "write CMakeLists.txt", last.trace)
       /\ Precedes("write CMakeLists.txt", "vcpkg install", last.trace)
       /\ declared(deps, last.lib_base)
       /\ cmake = Synchronized

\* C12 (amended): in a pain add that reaches the install command, the
\* guard's deletion comes before the manifest write, the manifest write
\* before the install command, and the install command before the write of
\* the build script; when the install fails the manifest declares the
\* library and the build script has not been written; when the command
\* succeeds the build script links the library.
C12_InstallBeforeInject ==
    AddInstalls
    => /\ Precedes("rmtree build", "write vcpkg.json", last.trace)
       /\ Precedes("write vcpkg.json", "vcpkg install", last.trace)
       /\ Precedes("vcpkg install", "write CMakeLists.txt", last.trace)
       /\ declared(deps, last.lib_base)
       /\ (~declared(last.pre_deps, last.lib_base) => Occurs("write vcpkg.json", last.trace))
       /\ (last.status = "CalledProcessError"
             => cmake = last.pre_cmake /\ ~Occurs("write CMakeLists.txt", last.trace))
       /\ (last.status = "ok" => cmake = Synchronized)

\* a pain add after a toolchain change: the guard deleted the build
\* directory, the manifest was written, the install command failed
C12_Witness ==
    /\ last.op = "add_library"
    /\ last.status = "CalledProcessError"
    /\ last.trace = <<"rmtree build", "write vcpkg.json", "vcpkg install", "vcpkg install">>
    /\ deps # last.pre_deps
    /\ Synchronized # last.pre_cmake

(***************************************************************************)
(* run and its progress thread (checked under SpecRun)                     *)
(***************************************************************************)

\* run has returned to its caller, or an exception has left it
RunOver == caller \in {"returned", "raised"}

\* the first execution of the command failed
Failed == Len(executed) > 0 /\ executed[1] # 0

\* C13: whenever run has returned or raised, the Spinner thread has ended;
\* if the command failed it has been executed exactly twice (once more for
\* its output) and run has raised the CalledProcessError of the first
\* execution; if the command succeeded it has been executed once and run
\* has returned.
C13_JoinedAndRerunOnce ==
    RunOver
    => /\ thread = "done"
       /\ ~running
       /\ Failed => /\ caller = "raised"
                    /\ Len(executed) = 2
                    /\ exc = [type |-> "CalledProcessError", returncode |-> executed[1]]
       /\ (Len(executed) > 0 /\ ~Failed) => (caller = "returned" /\ Len(executed) = 1)

\* a failed command whose second execution ended differently, after the
\* thread has written some characters
C13_Witness ==
    /\ caller = "raised"
    /\ thread = "done"
    /\ frame # 0
    /\ Len(executed) = 2
    /\ executed[2] # executed[1]
    /\ exc.returncode = executed[1]

====
